---------------------------- MODULE Spec2Model ----------------------------
(***************************************************************************)
(* A model of the Synacor virtual machine (src/src/cpu) and of the         *)
(* debugger that drives it (src/src/debugger).                             *)
(*                                                                         *)
(* Words are u16 values.  RAM is the Vec<u16> of RAM_SIZE words of         *)
(* Data::ram; it is represented by the function of its non-zero words     *)
(* (every other address holds 0), so that the real addresses and the real  *)
(* word width are kept.  A Rust panic ends the process: it is recorded in  *)
(* the variable panicked, after which no operation is possible.            *)
(***************************************************************************)
EXTENDS Integers, Naturals, Sequences, FiniteSets, TLC

(***************************************************************************)
(* Program constants.                                                      *)
(***************************************************************************)
RAM_SIZE == 32768

MOD_BASE == 32768

U16 == 65536

NUM_REGS == 8

BP_TAG == 204

(***************************************************************************)
(* Bounds of the model.                                                    *)
(***************************************************************************)
MaxCmds == 4

MaxSteps == 6

MaxStepArg == 2

\* longest binary, in bytes, of the loader check
MaxBinLen == 5

\* "no address" in the history variables
NoAddr == 0 - 1

(***************************************************************************)
(* u16 arithmetic and bit operations.                                      *)
(***************************************************************************)
RECURSIVE BitAnd(_, _)
BitAnd(a, b) ==
    IF a = 0 \/ b = 0 THEN 0
    ELSE (a % 2) * (b % 2) + 2 * BitAnd(a \div 2, b \div 2)

RECURSIVE BitOr(_, _)
BitOr(a, b) ==
    IF a = 0 THEN b
    ELSE IF b = 0 THEN a
    ELSE (IF a % 2 = 1 \/ b % 2 = 1 THEN 1 ELSE 0) + 2 * BitOr(a \div 2, b \div 2)

RECURSIVE BitXor(_, _)
BitXor(a, b) ==
    IF a = 0 THEN b
    ELSE IF b = 0 THEN a
    ELSE (IF a % 2 = b % 2 THEN 0 ELSE 1) + 2 * BitXor(a \div 2, b \div 2)

\* u16 addition of a small constant (release build: wrapping)
WrapAdd(a, b) == (a + b) % U16

(***************************************************************************)
(* SynInt (src/src/syn_int.rs)                                             *)
(***************************************************************************)
Literal(x) == [kind |-> "Literal", v |-> x]

Register(r) == [kind |-> "Register", v |-> r]

\* impl From<u16> for SynInt
SynInt_from(w) == IF w < 32768 THEN Literal(w) ELSE Register(w - 32768)

\* From<SynInt> for u16 as it would be if a register were encoded by its index
SynInt_into_index(x) == x.v

\* impl From<SynInt> for u16
SynInt_into(x) == IF x.kind = "Literal" THEN x.v ELSE (x.v + 32768) % U16

(***************************************************************************)
(* RAM: Vec<u16> of RAM_SIZE words, held as the function of its non-zero   *)
(* words.                                                                  *)
(***************************************************************************)
EmptyRam == [a \in {} |-> 0]

\* self.ram[a] for a < RAM_SIZE
RamAt(ram, a) == IF a \in DOMAIN ram THEN ram[a] ELSE 0

\* self.ram[a] = w for a < RAM_SIZE
RamPut(ram, a, w) ==
    [x \in ((DOMAIN ram \cup {a}) \ (IF w = 0 THEN {a} ELSE {})) |->
        IF x = a THEN w ELSE ram[x]]

\* impl Index<u16> for Data: the address wraps modulo RAM_SIZE
Data_index(data, idx) == RamAt(data.ram, idx % RAM_SIZE)

\* IndexMut<u16> as it would be without the reduction of the address
Data_index_mut_unwrapped(data, idx, w) ==
    [data EXCEPT !.ram = RamPut(data.ram, idx, w)]

\* impl IndexMut<u16> for Data
Data_index_mut(data, idx, w) ==
    [data EXCEPT !.ram = RamPut(data.ram, idx % RAM_SIZE, w)]

(***************************************************************************)
(* Operation::next (src/src/cpu/instruction.rs).  The argument is the      *)
(* slice &data[start..]: element k of the slice is ram[start + k], and an  *)
(* index at or past the end of the slice panics.                           *)
(***************************************************************************)
OpName(opc) ==
    CASE opc = 0 -> "Halt"
      [] opc = 1 -> "Set"
      [] opc = 2 -> "Push"
      [] opc = 3 -> "Pop"
      [] opc = 4 -> "Eq"
      [] opc = 5 -> "Gt"
      [] opc = 6 -> "Jmp"
      [] opc = 7 -> "Jt"
      [] opc = 8 -> "Jf"
      [] opc = 9 -> "Add"
      [] opc = 10 -> "Mult"
      [] opc = 11 -> "Mod"
      [] opc = 12 -> "And"
      [] opc = 13 -> "Or"
      [] opc = 14 -> "Not"
      [] opc = 15 -> "ReadMem"
      [] opc = 16 -> "WriteMem"
      [] opc = 17 -> "Call"
      [] opc = 18 -> "Ret"
      [] opc = 19 -> "Out"
      [] opc = 20 -> "In"
      [] opc = 21 -> "Noop"
      [] OTHER -> "_Unknown"

\* the slice elements each match arm reads, in field order
OperandIdx(opc) ==
    CASE opc \in {0, 18, 21} -> <<>>
      [] opc \in {2, 3, 6, 17, 19, 20} -> <<1>>
      [] opc \in {1, 7, 8, 15, 16} -> <<1, 2>>
      [] opc \in {4, 5, 9, 10, 11, 12, 13} -> <<1, 2, 3>>
      [] opc = 14 -> <<1, 1>>
      [] OTHER -> <<>>

PanicOp == [panic |-> TRUE]

Operation_next(ram, start) ==
    IF start >= RAM_SIZE THEN PanicOp
    ELSE LET w0 == RamAt(ram, start)
             opc == w0 % 256
             idx == OperandIdx(opc)
         IN IF \E i \in 1..Len(idx) : start + idx[i] >= RAM_SIZE THEN PanicOp
            ELSE [panic |-> FALSE,
                  bp |-> (BitAnd(w0 \div 256, BP_TAG) = BP_TAG),
                  instr |-> [op |-> OpName(opc),
                             args |-> [i \in 1..Len(idx) |->
                                 SynInt_from(RamAt(ram, start + idx[i]))]]]

\* Instruction::size
size(i) ==
    CASE i.op \in {"Halt", "Jmp", "Jt", "Jf", "Call", "Ret"} -> 0
      [] i.op \in {"Noop", "_Unknown"} -> 1
      [] i.op \in {"Push", "Pop", "Out", "In"} -> 2
      [] i.op \in {"Set", "Not", "ReadMem", "WriteMem"} -> 3
      [] OTHER -> 4

(***************************************************************************)
(* Data (src/src/cpu/data.rs)                                              *)
(***************************************************************************)
\* self.registers[r] is in bounds
RegOk(x) == x.kind = "Register" /\ x.v < NUM_REGS

\* Data::val does not panic: a literal, or a register index in bounds
ValOk(x) == x.kind = "Literal" \/ x.v < NUM_REGS

\* Data::val
val(data, x) == IF x.kind = "Literal" THEN x.v ELSE data.registers[x.v]

\* impl IndexMut<SynInt> for Data, where RegOk(dst) (it panics otherwise)
SetReg(data, dst, w) == [data EXCEPT !.registers[dst.v] = w]

\* Data::push
push(data, w) == [data EXCEPT !.stack = Append(data.stack, w)]

\* Data::pop on a non-empty stack: the last element pushed
StackTop(data) == data.stack[Len(data.stack)]

StackRest(data) == [data EXCEPT !.stack = SubSeq(data.stack, 1, Len(data.stack) - 1)]

\* Data::is_stack_empty
is_stack_empty(data) == data.stack = <<>>

\* char::from_u32: None for the surrogates (a u16 is always below 0x110000)
IsChar(v) == ~(v >= 55296 /\ v <= 57343)

RECURSIVE Reverse(_)
Reverse(s) == IF s = <<>> THEN <<>> ELSE Append(Reverse(Tail(s)), Head(s))

(***************************************************************************)
(* SynCpu (src/src/cpu/mod.rs).  A cpu value is the record                 *)
(*   [pc, halted, status, data: [registers, ram, stack], stdin_buf].       *)
(* The result of executing code is [cpu, out, panic, ret]: the new cpu,    *)
(* the characters printed, whether the thread panicked, and whether step   *)
(* returned before its last statement.                                     *)
(***************************************************************************)
Done(c) == [cpu |-> c, out |-> <<>>, panic |-> FALSE, ret |-> FALSE]

Panicked(c) == [cpu |-> c, out |-> <<>>, panic |-> TRUE, ret |-> FALSE]

\* the write as it would be if it also stored the word in the next register
WriteDst_clobber(c, dst, w) ==
    IF RegOk(dst)
    THEN Done([c EXCEPT !.data =
                  [SetReg(c.data, dst, w) EXCEPT !.registers[(dst.v + 1) % NUM_REGS] = w]])
    ELSE Panicked(c)

\* a write through IndexMut<SynInt>
WriteDst(c, dst, w) ==
    IF RegOk(dst) THEN Done([c EXCEPT !.data = SetReg(c.data, dst, w)])
    ELSE Panicked(c)

\* what the stdin thread of In hands over: a signal first, a line, or end of input
NoEnv == [kind |-> "none"]

SignalEnv == [kind |-> "signal"]

EofEnv == [kind |-> "eof"]

LineEnv(l) == [kind |-> "line", line |-> l]

\* SynCpu::peek_op_at
peek_op_at(c, offset) == Operation_next(c.data.ram, offset)

\* SynCpu::peek_op
peek_op(c) == peek_op_at(c, c.pc)

\* the In arm as it would be if a signal caught it after the write of dst
exec_In_torn(c, dst, env) ==
    IF c.stdin_buf = <<>>
    THEN CASE env.kind = "signal" -> [WriteDst(c, dst, 0) EXCEPT !.ret = TRUE]
           [] env.kind = "line" ->
                LET buf == Reverse(env.line)
                    ch == buf[Len(buf)]
                    c2 == [c EXCEPT !.stdin_buf = SubSeq(buf, 1, Len(buf) - 1)]
                IN WriteDst(c2, dst, ch % U16)
           [] OTHER -> Panicked(c)
    ELSE LET buf == c.stdin_buf
             ch == buf[Len(buf)]
             c2 == [c EXCEPT !.stdin_buf = SubSeq(buf, 1, Len(buf) - 1)]
         IN WriteDst(c2, dst, ch % U16)

\* the In arm as it would be if it took the characters from the front of the
\* buffer
exec_In_front(c, dst, env) ==
    IF c.stdin_buf = <<>>
    THEN CASE env.kind = "signal" -> [Done(c) EXCEPT !.ret = TRUE]
           [] env.kind = "line" ->
                LET buf == Reverse(env.line)
                    c2 == [c EXCEPT !.stdin_buf = Tail(buf)]
                IN WriteDst(c2, dst, Head(buf) % U16)
           [] OTHER -> Panicked(c)
    ELSE LET buf == c.stdin_buf
             c2 == [c EXCEPT !.stdin_buf = Tail(buf)]
         IN WriteDst(c2, dst, Head(buf) % U16)

\* the In arm of step
exec_In(c, dst, env) ==
    IF c.stdin_buf = <<>>
    THEN CASE env.kind = "signal" -> [Done(c) EXCEPT !.ret = TRUE]
           [] env.kind = "line" ->
                LET buf == Reverse(env.line)
                    ch == buf[Len(buf)]
                    c2 == [c EXCEPT !.stdin_buf = SubSeq(buf, 1, Len(buf) - 1)]
                IN WriteDst(c2, dst, ch % U16)
           [] OTHER -> Panicked(c)
    ELSE LET buf == c.stdin_buf
             ch == buf[Len(buf)]
             c2 == [c EXCEPT !.stdin_buf = SubSeq(buf, 1, Len(buf) - 1)]
         IN WriteDst(c2, dst, ch % U16)

\* the sum of the Add arm: (a as u32 + b as u32) % MOD_BASE
AddMod(x, y) == (x + y) % MOD_BASE

\* the product as it would be if reduced with & MOD_BASE
MultMod_and(x, y) == BitAnd(x * y, MOD_BASE)

\* the product of the Mult arm: (a as u32 * b as u32) % MOD_BASE; the product
\* of two u16 is below 2^32
MultMod(x, y) == (x * y) % MOD_BASE

\* the Pop arm as it would be if it halted without recording the status
exec_Pop_silent(c, dst) ==
    IF is_stack_empty(c.data)
    THEN Done([c EXCEPT !.halted = TRUE])
    ELSE WriteDst([c EXCEPT !.data = StackRest(c.data)], dst, StackTop(c.data))

\* the Pop arm as it would be if it recorded the status without halting
exec_Pop_running(c, dst) ==
    IF is_stack_empty(c.data)
    THEN Done([c EXCEPT !.status = "PopOnEmptyStack"])
    ELSE WriteDst([c EXCEPT !.data = StackRest(c.data)], dst, StackTop(c.data))

\* the Pop arm of step
exec_Pop(c, dst) ==
    IF is_stack_empty(c.data)
    THEN Done([c EXCEPT !.status = "PopOnEmptyStack", !.halted = TRUE])
    ELSE WriteDst([c EXCEPT !.data = StackRest(c.data)], dst, StackTop(c.data))

\* the Ret arm as it would be if the empty stack were reported as an error
exec_Ret_error(c) ==
    IF is_stack_empty(c.data)
    THEN Done([c EXCEPT !.status = "PopOnEmptyStack", !.halted = TRUE])
    ELSE Done([c EXCEPT !.data = StackRest(c.data), !.pc = StackTop(c.data)])

\* the Ret arm of step
exec_Ret(c) ==
    IF is_stack_empty(c.data) THEN Done([c EXCEPT !.halted = TRUE])
    ELSE Done([c EXCEPT !.data = StackRest(c.data), !.pc = StackTop(c.data)])

\* the match of step on the decoded instruction
exec_match(c, i, env) ==
    LET d == c.data
        a1 == i.args[1]
        a2 == i.args[2]
        a3 == i.args[3]
    IN CASE i.op = "Halt" -> Done([c EXCEPT !.halted = TRUE])
         [] i.op = "Set" ->
              IF ValOk(a2) THEN WriteDst(c, a1, val(d, a2)) ELSE Panicked(c)
         [] i.op = "Push" ->
              IF ValOk(a1) THEN Done([c EXCEPT !.data = push(d, val(d, a1))])
              ELSE Panicked(c)
         [] i.op = "Pop" -> exec_Pop(c, a1)
         [] i.op = "Eq" ->
              IF ValOk(a2) /\ ValOk(a3)
              THEN WriteDst(c, a1, IF val(d, a2) = val(d, a3) THEN 1 ELSE 0)
              ELSE Panicked(c)
         [] i.op = "Gt" ->
              IF ValOk(a2) /\ ValOk(a3)
              THEN WriteDst(c, a1, IF val(d, a2) > val(d, a3) THEN 1 ELSE 0)
              ELSE Panicked(c)
         [] i.op = "Jmp" ->
              IF ValOk(a1) THEN Done([c EXCEPT !.pc = val(d, a1)]) ELSE Panicked(c)
         [] i.op = "Jt" ->
              IF ~ValOk(a1) THEN Panicked(c)
              ELSE IF val(d, a1) # 0
                   THEN IF ValOk(a2) THEN Done([c EXCEPT !.pc = val(d, a2)])
                        ELSE Panicked(c)
                   ELSE Done([c EXCEPT !.pc = WrapAdd(c.pc, 3)])
         [] i.op = "Jf" ->
              IF ~ValOk(a1) THEN Panicked(c)
              ELSE IF val(d, a1) = 0
                   THEN IF ValOk(a2) THEN Done([c EXCEPT !.pc = val(d, a2)])
                        ELSE Panicked(c)
                   ELSE Done([c EXCEPT !.pc = WrapAdd(c.pc, 3)])
         [] i.op = "Add" ->
              IF ValOk(a2) /\ ValOk(a3)
              THEN WriteDst(c, a1, AddMod(val(d, a2), val(d, a3)))
              ELSE Panicked(c)
         [] i.op = "Mult" ->
              IF ValOk(a2) /\ ValOk(a3)
              THEN WriteDst(c, a1, MultMod(val(d, a2), val(d, a3)))
              ELSE Panicked(c)
         [] i.op = "Mod" ->
              IF ValOk(a2) /\ ValOk(a3) /\ val(d, a3) # 0
              THEN WriteDst(c, a1, val(d, a2) % val(d, a3))
              ELSE Panicked(c)
         [] i.op = "And" ->
              IF ValOk(a2) /\ ValOk(a3)
              THEN WriteDst(c, a1, BitAnd(val(d, a2), val(d, a3)))
              ELSE Panicked(c)
         [] i.op = "Or" ->
              IF ValOk(a2) /\ ValOk(a3)
              THEN WriteDst(c, a1, BitOr(val(d, a2), val(d, a3)))
              ELSE Panicked(c)
         [] i.op = "Not" ->
              IF ValOk(a2) THEN WriteDst(c, a1, BitXor(32767, val(d, a2)))
              ELSE Panicked(c)
         [] i.op = "ReadMem" ->
              IF ValOk(a2) THEN WriteDst(c, a1, Data_index(d, val(d, a2)))
              ELSE Panicked(c)
         [] i.op = "WriteMem" ->
              IF ValOk(a1) /\ ValOk(a2)
              THEN Done([c EXCEPT !.data = Data_index_mut(d, val(d, a1), val(d, a2))])
              ELSE Panicked(c)
         [] i.op = "Call" ->
              IF ValOk(a1)
              THEN LET d2 == push(d, WrapAdd(c.pc, 2))
                   IN Done([c EXCEPT !.data = d2, !.pc = val(d2, a1)])
              ELSE Panicked(c)
         [] i.op = "Ret" -> exec_Ret(c)
         [] i.op = "Out" ->
              IF ValOk(a1) /\ IsChar(val(d, a1))
              THEN [Done(c) EXCEPT !.out = <<val(d, a1)>>]
              ELSE Panicked(c)
         [] i.op = "In" -> exec_In(c, a1, env)
         [] i.op = "Noop" -> Done(c)
         [] OTHER ->
              Done([c EXCEPT !.status = "InstructionParseError", !.halted = TRUE])

\* step as it would be if it paused at a Breakpoint instead of dropping the tag
step_pausing(c, env) ==
    LET op == peek_op(c)
    IN IF op.panic THEN Panicked(c)
       ELSE IF op.bp THEN [Done(c) EXCEPT !.ret = TRUE]
       ELSE LET r == exec_match(c, op.instr, env)
            IN IF r.panic \/ r.ret THEN r
               ELSE [r EXCEPT !.cpu.pc = WrapAdd(r.cpu.pc, size(op.instr))]

\* SynCpu::step: decode at pc (the breakpoint tag is dropped by instr()),
\* execute, then pc += size
step(c, env) ==
    LET op == peek_op(c)
    IN IF op.panic THEN Panicked(c)
       ELSE LET r == exec_match(c, op.instr, env)
            IN IF r.panic \/ r.ret THEN r
               ELSE [r EXCEPT !.cpu.pc = WrapAdd(r.cpu.pc, size(op.instr))]

\* whether step at this state waits on the stdin thread
NeedsInput(c) ==
    LET op == peek_op(c)
    IN ~op.panic /\ op.instr.op = "In" /\ c.stdin_buf = <<>>

\* Operation::is_breakpoint
is_breakpoint(op) == op.bp

(***************************************************************************)
(* Loading (src/src/cpu/data.rs, src/src/cpu/injection.rs,                 *)
(* src/src/debugger/debugger.rs)                                           *)
(***************************************************************************)
ZeroRegisters == [r \in 0..(NUM_REGS - 1) |-> 0]

\* the loop as it would be if it read the words big-endian
RECURSIVE from_bin_loop_big(_, _, _)
from_bin_loop_big(binary, pos, ram) ==
    IF pos = Len(binary) THEN [err |-> FALSE, ram |-> ram]
    ELSE IF pos + 2 > Len(binary) \/ pos \div 2 >= RAM_SIZE
         THEN [err |-> TRUE, ram |-> ram]
         ELSE from_bin_loop_big(binary, pos + 2,
                  RamPut(ram, pos \div 2, 256 * binary[pos + 1] + binary[pos + 2]))

\* the loop as it would be if it dropped a single trailing byte
RECURSIVE from_bin_loop_lenient(_, _, _)
from_bin_loop_lenient(binary, pos, ram) ==
    IF pos = Len(binary) \/ pos + 1 = Len(binary) THEN [err |-> FALSE, ram |-> ram]
    ELSE IF pos \div 2 >= RAM_SIZE
         THEN [err |-> TRUE, ram |-> ram]
         ELSE from_bin_loop_lenient(binary, pos + 2,
                  RamPut(ram, pos \div 2, binary[pos + 1] + 256 * binary[pos + 2]))

\* the while loop of Data::from_bin from byte position pos: read_u16 fails on a
\* single trailing byte, and ram[idx] panics past the end of RAM
RECURSIVE from_bin_loop(_, _, _)
from_bin_loop(binary, pos, ram) ==
    IF pos = Len(binary) THEN [err |-> FALSE, ram |-> ram]
    ELSE IF pos + 2 > Len(binary) \/ pos \div 2 >= RAM_SIZE
         THEN [err |-> TRUE, ram |-> ram]
         ELSE from_bin_loop(binary, pos + 2,
                  RamPut(ram, pos \div 2, binary[pos + 1] + 256 * binary[pos + 2]))

\* Data::from_bin
from_bin(binary) ==
    LET r == from_bin_loop(binary, 0, EmptyRam)
    IN [err |-> r.err,
        data |-> [registers |-> ZeroRegisters, ram |-> r.ram, stack |-> <<>>]]

\* Injection::inject from payload element k on: data.ram[pc as usize] is a plain
\* Vec index, which panics at RAM_SIZE
RECURSIVE inject_loop(_, _, _)
inject_loop(inj, k, data) ==
    IF k > Len(inj.payload) THEN [err |-> FALSE, data |-> data]
    ELSE IF inj.addr + (k - 1) >= RAM_SIZE THEN [err |-> TRUE, data |-> data]
         ELSE inject_loop(inj, k + 1,
                  [data EXCEPT !.ram = RamPut(data.ram, inj.addr + (k - 1), inj.payload[k])])

\* Injection::inject
inject(inj, data) == inject_loop(inj, 1, data)

\* the for loop of Debugger::new over the injections
RECURSIVE inject_all(_, _, _)
inject_all(injs, k, data) ==
    IF k > Len(injs) THEN [err |-> FALSE, data |-> data]
    ELSE LET r == inject(injs[k], data)
         IN IF r.err THEN r ELSE inject_all(injs, k + 1, r.data)

\* SynCpu::new
SynCpu_new(data) ==
    [pc |-> 0, halted |-> FALSE, status |-> "Ok", data |-> data, stdin_buf |-> <<>>]

\* Debugger::new: the cpu it builds, or err when one of its calls panics
Debugger_new(binary, replay, injs) ==
    LET b == from_bin(binary)
        j == inject_all(injs, 1, b.data)
    IN [err |-> b.err \/ j.err,
        cpu |-> [SynCpu_new(j.data) EXCEPT !.stdin_buf = replay]]

(***************************************************************************)
(* The inputs: binaries (given as words, stored as little-endian bytes),   *)
(* replay files, injections, and the arguments the commands are given.     *)
(***************************************************************************)
RECURSIVE Bytes(_)
Bytes(ws) ==
    IF ws = <<>> THEN <<>>
    ELSE <<Head(ws) % 256, Head(ws) \div 256>> \o Bytes(Tail(ws))

Setup(words, replay, injs, bp, jump, regval) ==
    [bin |-> Bytes(words), replay |-> replay, injs |-> injs,
     bp |-> bp, jump |-> jump, regval |-> regval]

Setups ==
    { \* Out 'H'; Out 'i'; Halt
      Setup(<<19, 72, 19, 105, 0>>, <<>>, <<>>, {0, 2}, {4}, {7}),
      \* Add r0 32767 1; Halt
      Setup(<<9, 32768, 32767, 1, 0>>, <<>>, <<>>, {3, 4}, {4}, {40000}),
      \* Call 4; Halt; (0); Ret
      Setup(<<17, 4, 0, 0, 18>>, <<>>, <<>>, {2, 4}, {2, 4}, {7}),
      \* Pop r0; Halt
      Setup(<<3, 32768, 0>>, <<>>, <<>>, {0}, {2}, {7}),
      \* In r0; Out r0; Halt, with and without a replay
      Setup(<<20, 32768, 19, 32768, 0>>, <<97, 10>>, <<>>, {0, 2}, {2}, {55296}),
      Setup(<<20, 32768, 19, 32768, 0>>, <<>>, <<>>, {0, 2}, {4}, {7}),
      \* Jmp r0; Noop; Halt, and a Noop in the last word of RAM
      Setup(<<6, 32768, 21, 0>>, <<>>, <<[addr |-> 32767, payload |-> <<21>>]>>,
            {0, 32767}, {2, 32767}, {2, 32768}),
      \* Noop; Push r8; Mod r0 5 0
      Setup(<<21, 2, 32776, 11, 32768, 5, 0>>, <<>>, <<>>, {1}, {3}, {7}),
      \* Set 5 5 (a literal destination); Halt
      Setup(<<1, 5, 5, 0>>, <<>>, <<>>, {0}, {3}, {7}),
      \* Noop tagged in the binary (upper byte 0xFF); Jt r0 0; Noop with upper
      \* byte 0x80; Halt
      Setup(<<65301, 7, 32768, 0, 32789, 0>>, <<>>, <<>>, {4}, {1}, {1}),
      \* ReadMem r0 0; WriteMem 2 r0; Not r1 r1; Jf r1 0; an unknown opcode
      Setup(<<15, 32768, 0, 16, 2, 32768, 14, 32769, 32769, 8, 32769, 0, 99>>,
            <<>>, <<>>, {0, 3, 12}, {12}, {7}),
      \* ReadMem r0 7; WriteMem 6 r0; Noop; a data word (a tagged Noop); Halt:
      \* the program tags its own Noop at 6
      Setup(<<15, 32768, 7, 16, 6, 32768, 21, 52245, 0>>, <<>>, <<>>, {3}, {6}, {7}),
      \* Not r0 5; WriteMem 6 21; Noop; Noop with upper byte 0x80; Halt: the
      \* program rewrites its own Noop at 6
      Setup(<<14, 32768, 5, 16, 6, 21, 21, 32789, 0>>, <<>>, <<>>, {6, 7}, {3}, {7}),
      \* WriteMem r0 77; ReadMem r1 20; ReadMem r2 r0; Halt, r0 being set to
      \* 32768 + 20
      Setup(<<16, 32768, 77, 15, 32769, 20, 15, 32770, 32768, 0>>, <<>>, <<>>,
            {3}, {3}, {32788}),
      \* Noop; Halt, and an injection of two words at the last address of RAM
      Setup(<<21, 0>>, <<>>, <<[addr |-> 32767, payload |-> <<21, 19>>]>>, {0}, {0}, {7}),
      \* In r0; In r1; In r2; Halt, with a replay of two characters
      Setup(<<20, 32768, 20, 32769, 20, 32770, 0>>, <<97, 10>>, <<>>, {2}, {4}, {7}),
      \* Pop r0 (on the empty stack); Out 'H'; Halt
      Setup(<<3, 32768, 19, 72, 0>>, <<>>, <<>>, {2}, {4}, {7})
    }

\* the lines typed on the terminal while In waits
StdinLines == {<<98, 10>>}

InEnvs == {SignalEnv, EofEnv} \cup {LineEnv(l) : l \in StdinLines}

(***************************************************************************)
(* State.                                                                  *)
(***************************************************************************)
VARIABLES
    cpu,              \* Debugger::cpu
    breakpoints,      \* Debugger::breakpoints
    original_binary,  \* Debugger::original_binary
    original_replay,  \* Debugger::original_replay
    setup,            \* the inputs of this execution
    output,           \* the characters written to stdout by Out
    panicked,         \* the process has panicked
    mode,             \* "shell": at the prompt; "step", "run": inside that loop
    times,            \* the argument of the last step command
    left,             \* iterations left of the for loop of the step command
    sigPending,       \* a signal is queued on the channel of run
    lastCmd,          \* the command executed last
    pausedAt,         \* pc where the command before lastCmd, a run, paused at a
                      \* breakpoint (NoAddr otherwise)
    signalled,        \* the current run returned on a signal
    execCount,        \* calls of step made by the current command
    last,             \* the last call of step
    pre,              \* the cpu as that call found it, and the input it used
    ncmds,            \* commands given
    nsteps,           \* calls of step made
    snap,             \* the debugger as the last `bp set` found it, while only
                      \* an unset has followed, or as the last restart found it
    dslice,           \* decoder check: the slice and where it lies
    dop,              \* decoder check: the operation decoded ("none" before)
    typed             \* the line typed last at the prompt, and the debugger as
                      \* that line found it

vars ==
    <<cpu, breakpoints, original_binary, original_replay, setup, output, panicked,
      mode, times, left, sigPending, lastCmd, pausedAt, signalled, execCount, last,
      pre, ncmds, nsteps, snap, dslice, dop, typed>>

dbgConst == <<original_binary, original_replay, setup>>

decVars == <<dslice, dop>>

NoLast ==
    [valid |-> FALSE, cmd |-> "none", idx |-> 0, addr |-> 0, word |-> 0, bp |-> FALSE,
     haltedBefore |-> FALSE, op |-> "none", args |-> <<>>, panic |-> FALSE,
     ret |-> FALSE, assigned |-> FALSE, advance |-> 0]

NoPre == [cpu |-> SynCpu_new(from_bin(<<>>).data), env |-> NoEnv]

NoSlice == [words |-> <<>>, start |-> 0]

NoSnap ==
    [valid |-> FALSE, addr |-> 0, cpu |-> NoPre.cpu, bps |-> {}, ok |-> FALSE,
     unset |-> NoAddr]

NoOp == <<>>

NoTyped == [valid |-> FALSE, words |-> <<>>, cpu |-> NoPre.cpu, bps |-> {}]

\* main of src/src/debugger/main.rs: the replay file is reversed, so that pop
\* takes its characters in file order, and the debugger is built
Init ==
    \E s \in Setups :
        LET replay == Reverse(s.replay)
            d == Debugger_new(s.bin, replay, s.injs)
        IN /\ setup = s
           /\ original_binary = s.bin
           /\ original_replay = replay
           /\ cpu = d.cpu
           /\ panicked = d.err
           /\ breakpoints = {}
           /\ output = <<>>
           /\ mode = "shell"
           /\ times = 0
           /\ left = 0
           /\ sigPending = FALSE
           /\ lastCmd = "none"
           /\ pausedAt = NoAddr
           /\ signalled = FALSE
           /\ execCount = 0
           /\ last = NoLast
           /\ pre = NoPre
           /\ ncmds = 0
           /\ nsteps = 0
           /\ snap = NoSnap
           /\ dslice = NoSlice
           /\ dop = NoOp
           /\ typed = NoTyped

(***************************************************************************)
(* History of the last call of step, kept for the properties.              *)
(***************************************************************************)
\* whether the arm of step executed assigns pc (a branch taken)
Assigned(c, i) ==
    \/ i.op \in {"Jmp", "Call"}
    \/ i.op = "Jt" /\ val(c.data, i.args[1]) # 0
    \/ i.op = "Jf" /\ val(c.data, i.args[1]) = 0
    \/ i.op = "Ret" /\ ~is_stack_empty(c.data)

StepTrace(c, r, cmd, idx) ==
    LET op == peek_op(c)
        branch == ~r.panic /\ Assigned(c, op.instr)
    IN [valid |-> TRUE, cmd |-> cmd, idx |-> idx, addr |-> c.pc,
        word |-> RamAt(c.data.ram, c.pc),
        bp |-> IF op.panic THEN FALSE ELSE is_breakpoint(op),
        haltedBefore |-> c.halted,
        op |-> IF op.panic THEN "panic" ELSE op.instr.op,
        args |-> IF op.panic THEN <<>> ELSE op.instr.args,
        panic |-> r.panic, ret |-> r.ret,
        assigned |-> branch,
        advance |-> IF r.panic \/ branch THEN 0 ELSE r.cpu.pc - c.pc]

\* the inputs a call of step may meet
StepEnvs(c) == IF NeedsInput(c) THEN InEnvs ELSE {NoEnv}

\* the previous command was a run that returned at a breakpoint, no signal
PausedNow ==
    /\ lastCmd = "run" /\ mode = "shell" /\ ~signalled /\ ~cpu.halted
    /\ ~peek_op(cpu).panic /\ is_breakpoint(peek_op(cpu))

\* what every command does to the history when it starts
Begin(name) ==
    /\ mode = "shell" /\ ~panicked /\ ncmds < MaxCmds
    /\ ncmds' = ncmds + 1
    /\ lastCmd' = name
    /\ pausedAt' = IF PausedNow THEN cpu.pc ELSE NoAddr
    /\ signalled' = FALSE
    /\ execCount' = 0

(***************************************************************************)
(* Command::execute (src/src/debugger/command.rs)                          *)
(***************************************************************************)
\* Step: the argument is parsed and the for loop entered
CmdStep(n) ==
    /\ Begin("step")
    /\ mode' = IF n = 0 THEN "shell" ELSE "step"
    /\ times' = n
    /\ left' = n
    /\ snap' = NoSnap
    /\ UNCHANGED <<cpu, breakpoints, dbgConst, output, panicked, sigPending, last, pre,
                   nsteps, decVars, typed>>

\* one iteration of the for loop of Step: peek_op is printed, then step
StepLoop ==
    /\ mode = "step" /\ ~panicked /\ left > 0 /\ nsteps < MaxSteps
    /\ \E env \in StepEnvs(cpu) :
          LET r == step(cpu, env)
          IN /\ cpu' = r.cpu
             /\ output' = output \o r.out
             /\ panicked' = r.panic
             /\ last' = StepTrace(cpu, r, "step", execCount)
             /\ pre' = [cpu |-> cpu, env |-> env]
             /\ mode' = IF left = 1 /\ ~r.panic THEN "shell" ELSE "step"
    /\ left' = left - 1
    /\ UNCHANGED times
    /\ execCount' = execCount + 1
    /\ nsteps' = nsteps + 1
    /\ UNCHANGED <<breakpoints, dbgConst, sigPending, lastCmd, pausedAt, signalled,
                   ncmds, snap, decVars, typed>>

\* Run: SynCpu::run is entered
CmdRun ==
    /\ Begin("run")
    /\ mode' = "run"
    /\ snap' = NoSnap
    /\ UNCHANGED <<cpu, breakpoints, dbgConst, output, panicked, times, left, sigPending, last,
                   pre, nsteps, decVars, typed>>

\* the default arm as it would be without its test of halted
run_decide_unhalted(c) ==
    LET next_op == peek_op(c)
    IN IF next_op.panic THEN "panic"
       ELSE IF is_breakpoint(next_op) THEN "breakpoint"
       ELSE "step"

\* the default arm of the loop of SynCpu::run: what it does next
run_decide(c) ==
    IF c.halted THEN "halted"
    ELSE LET next_op == peek_op(c)
         IN IF next_op.panic THEN "panic"
            ELSE IF is_breakpoint(next_op) THEN "breakpoint"
            ELSE "step"

\* one iteration of the loop of SynCpu::run, no signal being queued
RunLoop ==
    /\ mode = "run" /\ ~panicked /\ ~sigPending
    /\ LET what == run_decide(cpu)
       IN CASE what = "step" ->
                 /\ nsteps < MaxSteps
                 /\ \E env \in StepEnvs(cpu) :
                       LET r == step(cpu, env)
                       IN /\ cpu' = r.cpu
                          /\ output' = output \o r.out
                          /\ panicked' = r.panic
                          /\ last' = StepTrace(cpu, r, "run", execCount)
                          /\ pre' = [cpu |-> cpu, env |-> env]
                          /\ sigPending' = r.ret
                 /\ execCount' = execCount + 1
                 /\ nsteps' = nsteps + 1
                 /\ UNCHANGED mode
            [] what = "panic" ->
                 /\ panicked' = TRUE
                 /\ UNCHANGED <<cpu, output, last, pre, sigPending, execCount, nsteps, mode>>
            [] OTHER ->
                 /\ mode' = "shell"
                 /\ UNCHANGED <<cpu, output, panicked, last, pre, sigPending, execCount,
                                nsteps>>
    /\ UNCHANGED <<breakpoints, dbgConst, times, left, lastCmd, pausedAt, signalled, ncmds,
                   snap, decVars, typed>>

\* the signal arm of the loop of SynCpu::run
RunSignal ==
    /\ mode = "run" /\ ~panicked
    /\ mode' = "shell"
    /\ signalled' = TRUE
    /\ sigPending' = FALSE
    /\ UNCHANGED <<cpu, breakpoints, dbgConst, output, panicked, times, left, lastCmd, pausedAt,
                   execCount, last, pre, ncmds, nsteps, snap, decVars, typed>>

\* Operation::is_valid: the low byte of ram[addr] is a known opcode
is_valid(addr, ram) == OpName(RamAt(ram, addr) % 256) # "_Unknown"

\* Breakpoint set as it would be if it stored the tag over the whole word
CmdBpSet_overwrite(addr) ==
    /\ Begin("bpset")
    /\ IF is_valid(addr, cpu.data.ram)
       THEN /\ cpu' = [cpu EXCEPT !.data.ram = RamPut(@, addr, BP_TAG * 256)]
            /\ breakpoints' = breakpoints \cup {addr}
       ELSE UNCHANGED <<cpu, breakpoints>>
    /\ snap' = [valid |-> TRUE, addr |-> addr, cpu |-> cpu, bps |-> breakpoints,
                ok |-> is_valid(addr, cpu.data.ram), unset |-> NoAddr]
    /\ UNCHANGED <<dbgConst, output, panicked, mode, times, left, sigPending, last, pre, nsteps,
                   decVars, typed>>

\* Breakpoint set, one address
CmdBpSet(addr) ==
    /\ Begin("bpset")
    /\ IF is_valid(addr, cpu.data.ram)
       THEN /\ cpu' = [cpu EXCEPT !.data.ram =
                          RamPut(@, addr, BitOr(RamAt(@, addr), BP_TAG * 256))]
            /\ breakpoints' = breakpoints \cup {addr}
       ELSE UNCHANGED <<cpu, breakpoints>>
    /\ snap' = [valid |-> TRUE, addr |-> addr, cpu |-> cpu, bps |-> breakpoints,
                ok |-> is_valid(addr, cpu.data.ram), unset |-> NoAddr]
    /\ UNCHANGED <<dbgConst, output, panicked, mode, times, left, sigPending, last, pre, nsteps,
                   decVars, typed>>

\* Breakpoint unset, one address
CmdBpUnset(addr) ==
    /\ Begin("bpunset")
    /\ IF addr \in breakpoints
       THEN /\ breakpoints' = breakpoints \ {addr}
            /\ cpu' = [cpu EXCEPT !.data.ram = RamPut(@, addr, RamAt(@, addr) % 256)]
       ELSE UNCHANGED <<cpu, breakpoints>>
    /\ snap' = IF snap.valid /\ lastCmd = "bpset" THEN [snap EXCEPT !.unset = addr]
               ELSE NoSnap
    /\ UNCHANGED <<dbgConst, output, panicked, mode, times, left, sigPending, last, pre, nsteps,
                   decVars, typed>>

\* Restart as it would be if it kept the breakpoint set
CmdRestart_keeping ==
    /\ Begin("restart")
    /\ LET b == from_bin(original_binary)
       IN /\ cpu' = [SynCpu_new(b.data) EXCEPT !.stdin_buf = original_replay]
          /\ panicked' = b.err
    /\ UNCHANGED breakpoints
    /\ snap' = [NoSnap EXCEPT !.valid = TRUE, !.cpu = cpu, !.bps = breakpoints]
    /\ UNCHANGED <<dbgConst, output, mode, times, left, sigPending, last, pre, nsteps, decVars, typed>>

\* Restart (snap keeps the debugger as the command found it)
CmdRestart ==
    /\ Begin("restart")
    /\ LET b == from_bin(original_binary)
       IN /\ cpu' = [SynCpu_new(b.data) EXCEPT !.stdin_buf = original_replay]
          /\ panicked' = b.err
    /\ breakpoints' = {}
    /\ snap' = [NoSnap EXCEPT !.valid = TRUE, !.cpu = cpu, !.bps = breakpoints]
    /\ UNCHANGED <<dbgConst, output, mode, times, left, sigPending, last, pre, nsteps, decVars, typed>>

\* SetRegister
CmdSetRegister(reg_num, v) ==
    /\ Begin("set")
    /\ cpu' = [cpu EXCEPT !.data.registers[reg_num] = v]
    /\ snap' = NoSnap
    /\ UNCHANGED <<breakpoints, dbgConst, output, panicked, mode, times, left, sigPending, last,
                   pre, nsteps, decVars, typed>>

\* Jump
CmdJump(offset) ==
    /\ Begin("jump")
    /\ cpu' = [cpu EXCEPT !.pc = offset]
    /\ snap' = NoSnap
    /\ UNCHANGED <<breakpoints, dbgConst, output, panicked, mode, times, left, sigPending, last,
                   pre, nsteps, decVars, typed>>

Next ==
    \/ \E n \in 0..MaxStepArg : CmdStep(n)
    \/ StepLoop
    \/ CmdRun
    \/ RunLoop
    \/ RunSignal
    \/ \E addr \in setup.bp : CmdBpSet(addr)
    \/ \E addr \in setup.bp : CmdBpUnset(addr)
    \/ CmdRestart
    \/ \E v \in setup.regval : CmdSetRegister(0, v)
    \/ \E offset \in setup.jump : CmdJump(offset)

Spec == Init /\ [][Next]_vars

(***************************************************************************)
(* The prompt on its own: Debugger::main_loop splits the line typed into   *)
(* words, and Command::execute parses the arguments.  A word is the        *)
(* sequence of its characters.                                             *)
(***************************************************************************)
\* impl From<&str> for Command
Command_from(s) ==
    CASE s \in {<<"q">>, <<"q", "u", "i", "t">>} -> "Quit"
      [] s \in {<<"h">>, <<"?">>, <<"h", "e", "l", "p">>} -> "Help"
      [] s \in {<<"s">>, <<"s", "t", "e", "p">>} -> "Step"
      [] s \in {<<"r">>, <<"r", "e", "g", "i", "s", "t", "e", "r", "s">>} -> "Registers"
      [] s \in {<<"c">>, <<"r", "u", "n">>} -> "Run"
      [] s \in {<<"b", "p">>, <<"b", "r", "e", "a", "k", "p", "o", "i", "n", "t">>} -> "Breakpoint"
      [] s \in {<<"m">>, <<"m", "e", "m", "o", "r", "y">>} -> "Memory"
      [] s \in {<<"r", "e", "s", "t", "a", "r", "t">>} -> "Restart"
      [] s \in {<<"l", "i", "s", "t">>, <<"l">>} -> "Disassemble"
      [] s \in {<<"d", "u", "m", "p">>} -> "DumpMemory"
      [] s \in {<<"s", "e", "t">>} -> "SetRegister"
      [] s \in {<<"p", "s">>, <<"s", "t", "a", "c", "k">>} -> "PrintStack"
      [] s \in {<<"j", "u", "m", "p">>} -> "Jump"
      [] OTHER -> "Unknown"

\* the value of a digit character
DigitOf ==
    ("0" :> 0 @@ "1" :> 1 @@ "2" :> 2 @@ "3" :> 3 @@ "4" :> 4 @@ "5" :> 5 @@ "6" :> 6
     @@ "7" :> 7 @@ "8" :> 8 @@ "9" :> 9 @@ "a" :> 10 @@ "b" :> 11 @@ "c" :> 12
     @@ "d" :> 13 @@ "e" :> 14 @@ "f" :> 15 @@ "A" :> 10 @@ "B" :> 11 @@ "C" :> 12
     @@ "D" :> 13 @@ "E" :> 14 @@ "F" :> 15)

\* Err(ParseIntError)
ParseErr == [ok |-> FALSE, v |-> 0]

\* the digits of word from character k on, in the radix
RECURSIVE radix_digits(_, _, _, _)
radix_digits(word, k, radix, acc) ==
    IF k > Len(word) THEN [ok |-> TRUE, v |-> acc]
    ELSE IF word[k] \notin DOMAIN DigitOf THEN ParseErr
    ELSE IF DigitOf[word[k]] >= radix THEN ParseErr
    ELSE radix_digits(word, k + 1, radix, acc * radix + DigitOf[word[k]])

\* usize::from_str_radix: an optional +, then one digit at least (the words
\* tried are far below usize::MAX)
from_str_radix(word, radix) ==
    LET body == IF word # <<>> /\ word[1] = "+" THEN Tail(word) ELSE word
    IN IF body = <<>> THEN ParseErr ELSE radix_digits(body, 1, radix, 0)

\* str::parse::<usize>
parse_usize(word) == from_str_radix(word, 10)

\* u16::from_str_radix as it would be if it kept the low 16 bits of a number
\* too large
u16_from_str_radix_wrapping(word, radix) ==
    LET r == from_str_radix(word, radix)
    IN IF r.ok THEN [r EXCEPT !.v = r.v % U16] ELSE ParseErr

\* u16::from_str_radix: a number that does not fit is an error
u16_from_str_radix(word, radix) ==
    LET r == from_str_radix(word, radix)
    IN IF r.ok /\ r.v < U16 THEN r ELSE ParseErr

\* str::parse::<u16>
parse_u16(word) == u16_from_str_radix(word, 10)

\* addr.starts_with("0x")
starts_with_0x(word) == Len(word) >= 2 /\ word[1] = "0" /\ word[2] = "x"

\* the word without its 0x, if any
hex_body(word) == IF starts_with_0x(word) THEN SubSeq(word, 3, Len(word)) ELSE word

\* the arms "set" and "unset" of Breakpoint on the addresses that parse, in
\* order; d is [cpu, breakpoints]
RECURSIVE bp_each(_, _, _, _)
bp_each(sub, addrs, k, d) ==
    IF k > Len(addrs) THEN d
    ELSE LET a == from_str_radix(hex_body(addrs[k]), 16)
             ram == d.cpu.data.ram
         IN IF ~a.ok THEN bp_each(sub, addrs, k + 1, d)
            ELSE IF sub = "set"
                 THEN bp_each(sub, addrs, k + 1,
                        IF is_valid(a.v, ram)
                        THEN [cpu |-> [d.cpu EXCEPT !.data.ram =
                                          RamPut(@, a.v, BitOr(RamAt(@, a.v), BP_TAG * 256))],
                              breakpoints |-> d.breakpoints \cup {a.v}]
                        ELSE d)
                 ELSE bp_each(sub, addrs, k + 1,
                        IF a.v \in d.breakpoints
                        THEN [cpu |-> [d.cpu EXCEPT !.data.ram =
                                          RamPut(@, a.v, RamAt(@, a.v) % 256)],
                              breakpoints |-> d.breakpoints \ {a.v}]
                        ELSE d)

\* the lines typed
UserLines ==
    { \* `step`
      <<<<"s", "t", "e", "p">>>>,
      \* `step x`
      <<<<"s", "t", "e", "p">>, <<"x">>>>,
      \* `frob`
      <<<<"f", "r", "o", "b">>>>,
      \* `bp`
      <<<<"b", "p">>>>,
      \* `bp set zz`
      <<<<"b", "p">>, <<"s", "e", "t">>, <<"z", "z">>>>,
      \* `bp set 2`
      <<<<"b", "p">>, <<"s", "e", "t">>, <<"2">>>>,
      \* `set 0 7`
      <<<<"s", "e", "t">>, <<"0">>, <<"7">>>>,
      \* `set 8 7`
      <<<<"s", "e", "t">>, <<"8">>, <<"7">>>>,
      \* `set 0 65536`
      <<<<"s", "e", "t">>, <<"0">>, <<"6", "5", "5", "3", "6">>>>,
      \* `jump`
      <<<<"j", "u", "m", "p">>>>,
      \* `jump 0x4`
      <<<<"j", "u", "m", "p">>, <<"0", "x", "4">>>>,
      \* `jump 10000`
      <<<<"j", "u", "m", "p">>, <<"1", "0", "0", "0", "0">>>>
    }

\* the programs they are typed to: Out 'H'; Out 'i'; Halt
ShellSetups == {s \in Setups : s.bin = Bytes(<<19, 72, 19, 105, 0>>)}

InitShell == Init /\ setup \in ShellSetups

\* one turn of the loop of main_loop on a line of words: the command is looked
\* up and executed with the other words as its arguments
CmdLine(words) ==
    /\ Begin("line")
    /\ typed' = [valid |-> TRUE, words |-> words, cpu |-> cpu, bps |-> breakpoints]
    /\ snap' = NoSnap
    /\ LET cmd == Command_from(words[1])
           args == Tail(words)
       IN CASE cmd = "Step" ->
                 LET n == IF args = <<>> THEN [ok |-> TRUE, v |-> 1]
                          ELSE parse_usize(args[1])
                 IN /\ mode' = IF n.ok /\ n.v > 0 THEN "step" ELSE "shell"
                    /\ times' = IF n.ok THEN n.v ELSE times
                    /\ left' = IF n.ok THEN n.v ELSE left
                    /\ UNCHANGED <<cpu, breakpoints>>
            [] cmd = "Breakpoint" ->
                 /\ IF args # <<>> /\ args[1] \in {<<"s", "e", "t">>, <<"u", "n", "s", "e", "t">>}
                    THEN LET d == bp_each(IF args[1] = <<"s", "e", "t">> THEN "set" ELSE "unset",
                                          Tail(args), 1,
                                          [cpu |-> cpu, breakpoints |-> breakpoints])
                         IN cpu' = d.cpu /\ breakpoints' = d.breakpoints
                    ELSE UNCHANGED <<cpu, breakpoints>>
                 /\ UNCHANGED <<mode, times, left>>
            [] cmd = "SetRegister" ->
                 LET reg_num == IF Len(args) >= 1 THEN parse_usize(args[1]) ELSE ParseErr
                     v == IF Len(args) >= 2 THEN parse_u16(args[2]) ELSE ParseErr
                 IN /\ IF reg_num.ok /\ reg_num.v < 8 /\ v.ok
                       THEN cpu' = [cpu EXCEPT !.data.registers[reg_num.v] = v.v]
                       ELSE UNCHANGED cpu
                    /\ UNCHANGED <<breakpoints, mode, times, left>>
            [] cmd = "Jump" ->
                 LET offset == IF Len(args) >= 1 THEN u16_from_str_radix(hex_body(args[1]), 16)
                               ELSE ParseErr
                 IN /\ IF offset.ok THEN cpu' = [cpu EXCEPT !.pc = offset.v]
                       ELSE UNCHANGED cpu
                    /\ UNCHANGED <<breakpoints, mode, times, left>>
            [] OTHER -> UNCHANGED <<cpu, breakpoints, mode, times, left>>
    /\ UNCHANGED <<dbgConst, output, panicked, sigPending, last, pre, nsteps, decVars>>

NextShell ==
    \/ \E words \in UserLines : CmdLine(words)
    \/ StepLoop

SpecShell == InitShell /\ [][NextShell]_vars

(***************************************************************************)
(* The decoder on its own: Operation::next applied to a slice of RAM.      *)
(***************************************************************************)
\* upper and lower bytes of the opcode words tried
DecodeHigh == {0, 127, 128, 204, 205, 220, 255}

DecodeLow == 0..23 \cup {255}

DecodeOperand1 == {0, 32767, 32768, 32775, 32776, 65535}

DecodeOperand23 == {1, 32769, 40000}

DecodeStart == {0, 32766, 32767}

\* the RAM in which the slice s.words lies at s.start (cut at the end of RAM)
RECURSIVE SliceRam(_, _, _)
SliceRam(s, k, ram) ==
    IF k > Len(s.words) \/ s.start + (k - 1) >= RAM_SIZE THEN ram
    ELSE SliceRam(s, k + 1, RamPut(ram, s.start + (k - 1), s.words[k]))

InitDecode ==
    /\ \E lo \in DecodeLow, hi \in DecodeHigh, a \in DecodeOperand1,
          b \in DecodeOperand23, c \in DecodeOperand23, st \in DecodeStart :
          dslice = [words |-> <<lo + 256 * hi, a, b, c>>, start |-> st]
    /\ dop = NoOp
    /\ setup = Setup(<<>>, <<>>, <<>>, {}, {}, {})
    /\ original_binary = <<>>
    /\ original_replay = <<>>
    /\ cpu = NoPre.cpu
    /\ panicked = FALSE
    /\ breakpoints = {}
    /\ output = <<>>
    /\ mode = "shell"
    /\ times = 0
    /\ left = 0
    /\ sigPending = FALSE
    /\ lastCmd = "none"
    /\ pausedAt = NoAddr
    /\ signalled = FALSE
    /\ execCount = 0
    /\ last = NoLast
    /\ pre = NoPre
    /\ ncmds = 0
    /\ nsteps = 0
    /\ snap = NoSnap
    /\ typed = NoTyped

\* SynCpu::peek_op_at on that RAM
Decode ==
    /\ dop = NoOp
    /\ dop' = <<Operation_next(SliceRam(dslice, 1, EmptyRam), dslice.start)>>
    /\ UNCHANGED <<cpu, breakpoints, dbgConst, output, panicked, mode, times, left,
                   sigPending, lastCmd, pausedAt, signalled, execCount, last, pre, ncmds,
                   nsteps, snap, dslice, typed>>

NextDecode == Decode

SpecDecode == InitDecode /\ [][NextDecode]_vars

\* the slice was decoded without a panic
Decoded == dop # NoOp /\ ~dop[1].panic

DecodedWord == dslice.words[1]

\* the operand words the decoded instruction was built from
DecodedOperandWords ==
    {dslice.words[1 + OperandIdx(DecodedWord % 256)[k]] :
        k \in 1..Len(OperandIdx(DecodedWord % 256))}

(***************************************************************************)
(* The loader on its own: Debugger::new applied to binaries of up to       *)
(* MaxBinLen bytes, of odd and of even length, without replay or           *)
(* injections.  mode is "load" until the debugger is built.                *)
(***************************************************************************)
\* byte values tried
LoadBytes == {0, 1, 255}

LoadBinaries == UNION {[1..n -> LoadBytes] : n \in 0..MaxBinLen}

InitLoad ==
    /\ original_binary \in LoadBinaries
    /\ setup = Setup(<<>>, <<>>, <<>>, {}, {}, {})
    /\ original_replay = <<>>
    /\ cpu = NoPre.cpu
    /\ panicked = FALSE
    /\ breakpoints = {}
    /\ output = <<>>
    /\ mode = "load"
    /\ times = 0
    /\ left = 0
    /\ sigPending = FALSE
    /\ lastCmd = "none"
    /\ pausedAt = NoAddr
    /\ signalled = FALSE
    /\ execCount = 0
    /\ last = NoLast
    /\ pre = NoPre
    /\ ncmds = 0
    /\ nsteps = 0
    /\ snap = NoSnap
    /\ dslice = NoSlice
    /\ dop = NoOp
    /\ typed = NoTyped

\* Debugger::new on that binary: from_bin(..).unwrap() panics on a load error
Load ==
    /\ mode = "load"
    /\ LET d == Debugger_new(original_binary, <<>>, <<>>)
       IN /\ cpu' = d.cpu
          /\ panicked' = d.err
    /\ mode' = "shell"
    /\ UNCHANGED <<breakpoints, dbgConst, output, times, left, sigPending, lastCmd, pausedAt,
                   signalled, execCount, last, pre, ncmds, nsteps, snap, decVars, typed>>

NextLoad == Load

SpecLoad == InitLoad /\ [][NextLoad]_vars

(***************************************************************************)
(* The arithmetic arms on their own: one step of a three-operand           *)
(* instruction writing r1, over operand words and contents of r0 drawn     *)
(* from the sets below (r0 as `set 0 v` leaves it).                        *)
(***************************************************************************)
\* opcodes tried: Add, Mult
ArithOps == {9, 10}

\* operand words tried: literals, and 32768 for r0
ArithWords == {0, 1, 2, 3, 32767, 32768}

\* contents of r0 tried (their squares fit the 32-bit integers of TLC)
ArithRegs == {0, 3, 32767, 32768, 40000}

InitArith ==
    /\ \E opc \in ArithOps, aw \in ArithWords, bw \in ArithWords, rv \in ArithRegs :
          LET s == Setup(<<opc, 32769, aw, bw, 0>>, <<>>, <<>>, {}, {}, {rv})
              d == Debugger_new(s.bin, <<>>, s.injs)
          IN /\ setup = s
             /\ original_binary = s.bin
             /\ cpu = [d.cpu EXCEPT !.data.registers[0] = rv]
             /\ panicked = d.err
    /\ original_replay = <<>>
    /\ breakpoints = {}
    /\ output = <<>>
    /\ mode = "shell"
    /\ times = 0
    /\ left = 0
    /\ sigPending = FALSE
    /\ lastCmd = "none"
    /\ pausedAt = NoAddr
    /\ signalled = FALSE
    /\ execCount = 0
    /\ last = NoLast
    /\ pre = NoPre
    /\ ncmds = 0
    /\ nsteps = 0
    /\ snap = NoSnap
    /\ dslice = NoSlice
    /\ dop = NoOp
    /\ typed = NoTyped

\* `step 1` on that cpu: one call of SynCpu::step
ArithStep ==
    /\ execCount = 0 /\ ~panicked
    /\ LET r == step(cpu, NoEnv)
       IN /\ cpu' = r.cpu
          /\ output' = output \o r.out
          /\ panicked' = r.panic
          /\ last' = StepTrace(cpu, r, "step", 0)
          /\ pre' = [cpu |-> cpu, env |-> NoEnv]
    /\ execCount' = 1
    /\ nsteps' = nsteps + 1
    /\ ncmds' = ncmds + 1
    /\ lastCmd' = "step"
    /\ times' = 1
    /\ UNCHANGED <<breakpoints, dbgConst, mode, left, sigPending, pausedAt, signalled,
                   snap, decVars, typed>>

NextArith == ArithStep

SpecArith == InitArith /\ [][NextArith]_vars

(***************************************************************************)
(* Properties.                                                             *)
(***************************************************************************)
\* a run command has returned to the prompt
RunReturned == mode = "shell" /\ lastCmd = "run" /\ ~panicked

\* the operation at pc decodes to a Breakpoint
AtBreakpoint == ~peek_op(cpu).panic /\ is_breakpoint(peek_op(cpu))

\* C1: a run given right after a run that paused at a breakpoint at A (and not
\* ended by a signal) executes the instruction at A before it returns.
C1_RunReentersBreakpoint ==
    (RunReturned /\ pausedAt # NoAddr /\ ~signalled) => execCount > 0

\* the cpu with the upper byte of the word at pc cleared
Untag(c) == [c EXCEPT !.data.ram = RamPut(@, c.pc, RamAt(@, c.pc) % 256)]

\* the instruction that word encodes once untagged
UntaggedInstr(c) == Operation_next(Untag(c).data.ram, c.pc).instr

\* the effect of that instruction on the cpu c, with its pc advance
UntaggedEffect(c, env) ==
    LET i == UntaggedInstr(c)
        r == exec_match(c, i, env)
    IN IF r.panic \/ r.ret THEN r
       ELSE [r EXCEPT !.cpu.pc = WrapAdd(r.cpu.pc, size(i))]

\* C2: after run has paused at a breakpoint at A, a step command executes the
\* instruction encoded at A, with the effect of the untagged instruction on
\* pc and on the rest of the cpu, and a `step 1` executes it exactly once.
C2_StepResumesBreakpoint ==
    (lastCmd = "step" /\ pausedAt # NoAddr) =>
        /\ execCount = 1 =>
              /\ last.addr = pausedAt /\ last.bp /\ last.idx = 0
              /\ last.op = UntaggedInstr(pre.cpu).op
              /\ cpu = UntaggedEffect(pre.cpu, pre.env).cpu
              /\ panicked = UntaggedEffect(pre.cpu, pre.env).panic
        /\ (mode = "shell" /\ times = 1 /\ ~panicked) => execCount = 1

\* C2 witness: a `step 1` given at the pause of a breakpoint that `bp set` had
\* placed has completed and has moved pc on
C2_Witness ==
    /\ lastCmd = "step" /\ pausedAt \in breakpoints /\ times = 1 /\ mode = "shell"
    /\ execCount = 1 /\ ~panicked /\ last.bp /\ cpu.pc # pausedAt

\* C3: in a step command, every operation after the first is executed only if
\* the operation at pc is not a Breakpoint.
C3_StepHonoursBreakpoints ==
    (last.valid /\ last.cmd = "step" /\ last.idx > 0) => ~last.bp

\* C4: when run has returned, the cpu is halted, or the operation at pc is a
\* Breakpoint, or a signal was delivered; and no step made by run found the
\* cpu halted.
C4_RunReturns ==
    /\ RunReturned => (cpu.halted \/ AtBreakpoint \/ signalled)
    /\ (last.valid /\ last.cmd = "run") => ~last.haltedBefore

\* C4 witness: run has executed something and then returned at a breakpoint,
\* neither halted nor signalled
C4_Witness ==
    /\ RunReturned /\ ~cpu.halted /\ ~signalled /\ AtBreakpoint /\ execCount > 0
    /\ last.cmd = "run" /\ cpu.pc \in breakpoints

\* C5: pc is always an address of RAM.
C5_PcInRam == cpu.pc \in 0..(RAM_SIZE - 1)

\* C6: no call of step aborts the process: failures only set status and halted.
C6_StepNeverAborts == last.valid => ~last.panic

\* a literal of 15 bits or one of the eight registers
ValidOperand(x) ==
    \/ x.kind = "Literal" /\ x.v \in 0..32767
    \/ x.kind = "Register" /\ x.v \in 0..(NUM_REGS - 1)

\* C7: every operand the decoder produces is a 15-bit literal or one of the
\* registers 0..7, and an instruction with an operand word >= 32776 decodes to
\* the unknown operation.
C7_OperandsValid ==
    Decoded =>
        /\ \A k \in DOMAIN dop[1].instr.args : ValidOperand(dop[1].instr.args[k])
        /\ (\E w \in DecodedOperandWords : w >= 32776) => dop[1].instr.op = "_Unknown"

\* C8: an opcode word w >= 0x8008 with (w & 0xCC00) # 0xCC00 decodes to _Unknown.
C8_HighWordsUnknown ==
    (Decoded /\ DecodedWord >= 32776 /\ BitAnd(DecodedWord, 52224) # 52224)
        => dop[1].instr.op = "_Unknown"

\* C9: a word decodes to a Breakpoint if and only if its upper byte is 0xCC.
C9_BreakpointIffCC ==
    Decoded => (dop[1].bp <=> (DecodedWord \div 256 = BP_TAG))

\* the word size of each instruction in the opcode table
TableSize(op) ==
    CASE op \in {"Halt", "Ret", "Noop"} -> 1
      [] op \in {"Push", "Pop", "Jmp", "Call", "Out", "In"} -> 2
      [] op \in {"Set", "Jt", "Jf", "Not", "ReadMem", "WriteMem"} -> 3
      [] OTHER -> 4

\* C10: a completed step of an instruction of the opcode table either advanced
\* pc by the size of that instruction or assigned pc in a taken branch, and
\* not both.
C10_PcAdvanceOrBranch ==
    (last.valid /\ ~last.panic /\ ~last.ret /\ last.op # "_Unknown") =>
        (last.assigned # (last.advance = TableSize(last.op)))

\* the cpu is as the last call of step left it: the current command has called
\* step, and no command changes the cpu after its calls of step
JustStepped == last.valid /\ execCount > 0

\* the Call/Ret program of the scenarios, run from the load with one command
CallRetProgram == Bytes(<<17, 4, 0, 0, 18>>)

\* C11: Call pushes pc + 2 and sets pc to val(dst); Ret on a non-empty stack
\* pops the top into pc; and the program [17, 4, 0, 0, 18], run to completion
\* from the load, ends halted with an empty stack and pc = 3.
C11_CallRet ==
    /\ (JustStepped /\ ~last.panic /\ last.op = "Call") =>
          /\ cpu.data.stack = Append(pre.cpu.data.stack, pre.cpu.pc + 2)
          /\ cpu.pc = val(pre.cpu.data, last.args[1])
    /\ (JustStepped /\ last.op = "Ret" /\ pre.cpu.data.stack # <<>>) =>
          /\ cpu.pc = StackTop(pre.cpu.data)
          /\ cpu.data.stack = StackRest(pre.cpu.data).stack
    /\ (setup.bin = CallRetProgram /\ ncmds = 1 /\ RunReturned /\ ~signalled) =>
          /\ cpu.halted /\ cpu.data.stack = <<>> /\ cpu.pc = 3

\* C12: Pop on an empty stack sets status to PopOnEmptyStack and halted, and
\* leaves the registers, RAM and the stack as they were.
C12_PopOnEmpty ==
    (JustStepped /\ last.op = "Pop" /\ pre.cpu.data.stack = <<>>) =>
        /\ ~panicked
        /\ cpu.status = "PopOnEmptyStack"
        /\ cpu.halted
        /\ cpu.data = pre.cpu.data

\* C12 witness: a Pop has been executed on an empty stack by a cpu that was
\* running with status Ok
C12_Witness ==
    /\ JustStepped /\ last.op = "Pop" /\ pre.cpu.data.stack = <<>>
    /\ ~pre.cpu.halted /\ pre.cpu.status = "Ok" /\ cpu.halted

\* the instructions whose first field is a register destination
DstOps ==
    {"Set", "Pop", "Eq", "Gt", "Add", "Mult", "Mod", "And", "Or", "Not", "ReadMem", "In"}

\* the step reported an instruction parse error and changed nothing of the data
ParseErrorHalt ==
    /\ ~panicked
    /\ cpu.status = "InstructionParseError"
    /\ cpu.halted
    /\ cpu.data = pre.cpu.data

\* C13: Mod with val(b) = 0 sets status to InstructionParseError and halted and
\* does not write the destination register.
C13_ModByZero ==
    (/\ JustStepped /\ last.op = "Mod"
     /\ ValOk(last.args[2]) /\ ValOk(last.args[3])
     /\ val(pre.cpu.data, last.args[3]) = 0)
        => ParseErrorHalt

\* C14: an instruction whose destination field decodes to a literal sets status
\* to InstructionParseError and halted and leaves registers, RAM and stack as
\* they were.
C14_LiteralDestination ==
    (/\ JustStepped /\ last.op \in DstOps /\ ~last.ret
     /\ last.args[1].kind = "Literal")
        => ParseErrorHalt

\* C15: for the words [14, dst, a] at pc, with dst a register and a an operand,
\* one step writes val(a) XOR 0x7FFF into dst, a being the word at pc + 2.
C15_NotOperands ==
    LET dstw == RamAt(pre.cpu.data.ram, last.addr + 1)
        aw == RamAt(pre.cpu.data.ram, last.addr + 2)
    IN (/\ JustStepped /\ last.op = "Not"
        /\ dstw \in 32768..32775 /\ aw \in 0..32775)
           => /\ ~panicked
              /\ cpu.data.registers[dstw - 32768] =
                    BitXor(val(pre.cpu.data, SynInt_from(aw)), 32767)

\* the values of the two source operands of the last step, and what it wrote
ArithA == val(pre.cpu.data, last.args[2])

ArithB == val(pre.cpu.data, last.args[3])

ArithResult == cpu.data.registers[last.args[1].v]

\* the last step was an Add or a Mult with a register destination and operands
\* that are literals or registers
ArithStepped ==
    /\ JustStepped /\ last.op \in {"Add", "Mult"}
    /\ RegOk(last.args[1]) /\ ValOk(last.args[2]) /\ ValOk(last.args[3])

NoTagWords(ram) == \A a \in DOMAIN ram : BitAnd(ram[a] \div 256, BP_TAG) # BP_TAG

\* the word at addr decodes to an instruction of the opcode table
InstructionAt(ram, addr) ==
    /\ ~Operation_next(ram, addr).panic
    /\ Operation_next(ram, addr).instr.op # "_Unknown"

\* a `bp set A` has been followed at once by `bp unset A`
SetThenUnset == lastCmd = "bpunset" /\ snap.valid /\ snap.unset = snap.addr

\* C17: in a RAM image without tagged words, `bp set A` followed by
\* `bp unset A` for an instruction address A leaves RAM word for word as it was.
C17_BreakpointTransparency ==
    (/\ SetThenUnset
     /\ NoTagWords(snap.cpu.data.ram)
     /\ InstructionAt(snap.cpu.data.ram, snap.addr))
        => cpu.data.ram = snap.cpu.data.ram

\* C18: every address of the breakpoint set carries the tag in RAM.
C18_SetMatchesTags ==
    \A a \in breakpoints : BitAnd(RamAt(cpu.data.ram, a), BP_TAG * 256) = BP_TAG * 256

\* C19: when run has returned without halt or signal (a breakpoint pause), pc is
\* an address of the breakpoint set.
C19_PauseOnlyAtRegistered ==
    (RunReturned /\ ~cpu.halted /\ ~signalled) => cpu.pc \in breakpoints

\* a `bp set` has just been executed
JustSet == lastCmd = "bpset" /\ snap.valid /\ snap.unset = NoAddr

\* the word at the address of that command before it
SetWord == RamAt(snap.cpu.data.ram, snap.addr)

\* C20: `bp set A` succeeds only if the low byte of ram[A] is an opcode 0..21;
\* on success it changes the upper byte of ram[A] alone (ram[A] |= 0xCC00),
\* adds A to the set, and A decodes to the Breakpoint of the instruction
\* decoded before; on failure RAM and the set are unchanged.
C20_BpSetFrame ==
    JustSet =>
        LET A == snap.addr
            before == snap.cpu
            opBefore == Operation_next(before.data.ram, A)
            opAfter == Operation_next(cpu.data.ram, A)
        IN /\ snap.ok => SetWord % 256 \in 0..21
           /\ snap.ok =>
                 /\ RamAt(cpu.data.ram, A) = BitOr(SetWord, 52224)
                 /\ RamAt(cpu.data.ram, A) % 256 = SetWord % 256
                 /\ \A a \in (DOMAIN cpu.data.ram \cup DOMAIN before.data.ram) \ {A} :
                       RamAt(cpu.data.ram, a) = RamAt(before.data.ram, a)
                 /\ [cpu EXCEPT !.data.ram = before.data.ram] = before
                 /\ breakpoints = snap.bps \cup {A}
                 /\ ~opBefore.panic =>
                       /\ ~opAfter.panic /\ opAfter.bp
                       /\ opAfter.instr = opBefore.instr
           /\ ~snap.ok => (cpu = before /\ breakpoints = snap.bps)

\* C20 witness: a `bp set` has tagged an untagged instruction word at an address
\* that was not in the set
C20_Witness ==
    /\ JustSet /\ snap.ok /\ snap.addr \notin snap.bps
    /\ ~Operation_next(snap.cpu.data.ram, snap.addr).panic
    /\ ~Operation_next(snap.cpu.data.ram, snap.addr).bp
    /\ snap.addr \in breakpoints
    /\ Operation_next(cpu.data.ram, snap.addr).bp

\* a restart has just been executed
JustRestarted == lastCmd = "restart" /\ snap.valid

\* the machine main builds from the inputs: Debugger::new on the binary, the
\* reversed replay file and the injections
LoadedCpu == Debugger_new(setup.bin, Reverse(setup.replay), setup.injs).cpu

\* C21: after restart the whole machine state (RAM with the load-time
\* injections, registers, stack, pc, halted, status, replay buffer, breakpoint
\* set) equals the state right after the initial load.
C21_RestartIdempotent ==
    JustRestarted => (~panicked /\ cpu = LoadedCpu /\ breakpoints = {})

\* word a of the binary file, little-endian (0 past its end)
BinaryWord(a) ==
    IF 2 * a + 2 <= Len(setup.bin) THEN setup.bin[2 * a + 1] + 256 * setup.bin[2 * a + 2]
    ELSE 0

\* C22: after restart pc = 0, halted = false, status = Ok, the registers are 0,
\* the stack is empty, the breakpoint set is empty and no address that was in
\* it keeps a tag the binary does not have, and the replay buffer is the
\* replay as loaded.
C22_RestartResets ==
    JustRestarted =>
        /\ cpu.pc = 0 /\ ~cpu.halted /\ cpu.status = "Ok"
        /\ \A r \in 0..(NUM_REGS - 1) : cpu.data.registers[r] = 0
        /\ cpu.data.stack = <<>>
        /\ breakpoints = {}
        /\ \A a \in snap.bps : RamAt(cpu.data.ram, a) = BinaryWord(a)
        /\ cpu.stdin_buf = Reverse(setup.replay)

\* C22 witness: a restart given with a breakpoint set and tagged in RAM, after
\* steps had moved pc and consumed replay input
C22_Witness ==
    /\ JustRestarted /\ ~panicked
    /\ \E a \in snap.bps :
          /\ BitAnd(RamAt(snap.cpu.data.ram, a), BP_TAG * 256) = BP_TAG * 256
          /\ RamAt(cpu.data.ram, a) < 256
    /\ snap.cpu.pc # 0
    /\ snap.cpu.stdin_buf # cpu.stdin_buf
    /\ cpu.pc = 0 /\ breakpoints = {}

\* the address a ReadMem or WriteMem of the last step evaluated
MemAddr(k) == val(pre.cpu.data, last.args[k])

\* C23: WriteMem stores val(src) in ram[A mod 32768] and changes no other word,
\* and ReadMem reads ram[A mod 32768], A being the value of the address operand,
\* also when A >= 32768.
C23_RamWraps ==
    /\ (JustStepped /\ last.op = "WriteMem" /\ ValOk(last.args[1]) /\ ValOk(last.args[2])) =>
          /\ ~panicked
          /\ RamAt(cpu.data.ram, MemAddr(1) % 32768) = val(pre.cpu.data, last.args[2])
          /\ \A a \in (DOMAIN cpu.data.ram \cup DOMAIN pre.cpu.data.ram) \ {MemAddr(1) % 32768} :
                RamAt(cpu.data.ram, a) = RamAt(pre.cpu.data.ram, a)
    /\ (JustStepped /\ last.op = "ReadMem" /\ RegOk(last.args[1]) /\ ValOk(last.args[2])) =>
          /\ ~panicked
          /\ cpu.data.registers[last.args[1].v] = RamAt(pre.cpu.data.ram, MemAddr(2) % 32768)

\* C23 witness: after WriteMem has stored 77 through the address 32768 + 20,
\* ReadMem of address 20 has read 77, and so has ReadMem through 32768 + 20
C23_Witness ==
    /\ JustStepped /\ last.op = "ReadMem" /\ MemAddr(2) = 32788
    /\ RamAt(cpu.data.ram, 20) = 77 /\ 20 \notin DOMAIN LoadedCpu.data.ram
    /\ cpu.data.registers[1] = 77 /\ cpu.data.registers[2] = 77

\* the instruction the opcode table gives for the opcode word decoded
DecodedName == OpName(DecodedWord % 256)

\* C24: decoding reads operand k at (pc + k) mod 32768: an instruction of the
\* opcode table (Not aside, whose operands the decoder misreads anyway) whose
\* operands lie past the end of RAM decodes with the operands taken from
\* addresses 0, 1, 2.
C24_DecodeWraps ==
    (dop # NoOp /\ DecodedName \notin {"_Unknown", "Not"}) =>
        /\ ~dop[1].panic
        /\ \A k \in 1..(TableSize(DecodedName) - 1) :
              dop[1].instr.args[k] =
                  SynInt_from(RamAt(SliceRam(dslice, 1, EmptyRam),
                                    (dslice.start + k) % RAM_SIZE))

\* payload element k on of an injection written at (addr + i) mod 32768
RECURSIVE WrappedPayload(_, _, _)
WrappedPayload(inj, k, ram) ==
    IF k > Len(inj.payload) THEN ram
    ELSE WrappedPayload(inj, k + 1,
             RamPut(ram, (inj.addr + (k - 1)) % RAM_SIZE, inj.payload[k]))

\* the injections from number k on applied in order in that way
RECURSIVE WrappedInjections(_, _, _)
WrappedInjections(injs, k, ram) ==
    IF k > Len(injs) THEN ram
    ELSE WrappedInjections(injs, k + 1, WrappedPayload(injs[k], 1, ram))

\* C25: at the load every injection (addr, payload) writes payload[i] into
\* ram[(addr + i) mod 32768] in order, and no other word of RAM changes.
C25_InjectionWraps ==
    (ncmds = 0 /\ setup.injs # <<>> /\ ~from_bin(setup.bin).err) =>
        /\ ~panicked
        /\ cpu.data.ram = WrappedInjections(setup.injs, 1, from_bin(setup.bin).data.ram)

\* the buffer holding the replay file from its character k on
ReplayRest(k) == Reverse(SubSeq(setup.replay, k, Len(setup.replay)))

\* the last step was an In with a register destination
InStepped == JustStepped /\ last.op = "In" /\ RegOk(last.args[1])

\* C26: an In executed with a non-empty buffer writes the next character in
\* file order into dst, removes that character alone and reads nothing from
\* stdin; with the replay left from its character k on it writes character k;
\* stdin is consulted only by an In executed with an empty buffer.
C26_ReplayFirst ==
    /\ (InStepped /\ pre.cpu.stdin_buf # <<>>) =>
          /\ ~panicked /\ ~last.ret /\ pre.env = NoEnv
          /\ cpu.data.registers[last.args[1].v] = Head(Reverse(pre.cpu.stdin_buf))
          /\ Reverse(cpu.stdin_buf) = Tail(Reverse(pre.cpu.stdin_buf))
          /\ \A k \in 1..Len(setup.replay) :
                pre.cpu.stdin_buf = ReplayRest(k) =>
                    /\ cpu.data.registers[last.args[1].v] = setup.replay[k]
                    /\ cpu.stdin_buf = ReplayRest(k + 1)
    /\ (JustStepped /\ pre.env # NoEnv) => (last.op = "In" /\ pre.cpu.stdin_buf = <<>>)

\* C26 witness: the second In of a program has taken the second and last
\* character of the replay, the first In having taken the first
C26_Witness ==
    /\ InStepped /\ Len(setup.replay) = 2 /\ pre.cpu.stdin_buf = ReplayRest(2)
    /\ pre.cpu.data.registers[0] = setup.replay[1]
    /\ cpu.data.registers[1] = setup.replay[2]
    /\ cpu.stdin_buf = <<>>

\* C27: when a signal ends a run, or aborts an In blocked on stdin, the status
\* of the cpu is Interrupted and halted is as it was.
C27_SignalSetsInterrupted ==
    /\ (RunReturned /\ signalled) => cpu.status = "Interrupted"
    /\ (JustStepped /\ last.ret) =>
          (cpu.status = "Interrupted" /\ cpu.halted = pre.cpu.halted)

\* C28: a signal that aborts a blocked In leaves pc, registers, RAM, stack and
\* the input buffer as that In found them; and when run returns on a signal
\* after it has stepped, the cpu is as its last step left it, that step
\* either aborted in this way or complete (the whole effect of the
\* instruction, with its pc advance).
C28_SignalBetweenSteps ==
    /\ (JustStepped /\ last.ret) => (last.op = "In" /\ ~panicked /\ cpu = pre.cpu)
    /\ (RunReturned /\ signalled /\ execCount > 0 /\ ~last.ret) =>
          cpu = UntaggedEffect(pre.cpu, pre.env).cpu

\* C28 witness: run has returned on a signal that aborted an In blocked on
\* stdin, with pc still at that In
C28_Witness ==
    /\ RunReturned /\ signalled /\ execCount > 0 /\ last.cmd = "run" /\ last.ret
    /\ last.op = "In" /\ cpu = pre.cpu /\ cpu.pc = last.addr /\ ~cpu.halted

\* the last step was a Ret that found the stack empty
RetOnEmpty == JustStepped /\ last.op = "Ret" /\ pre.cpu.data.stack = <<>>

\* C29: Ret on an empty stack sets halted and nothing else: the status is as
\* before (Ok for a cpu that was running), registers, RAM and stack are
\* unchanged.
C29_RetOnEmpty ==
    RetOnEmpty =>
        /\ ~panicked
        /\ cpu.halted
        /\ cpu.status = pre.cpu.status
        /\ pre.cpu.status = "Ok" => cpu.status = "Ok"
        /\ cpu.data = pre.cpu.data

\* C29 witness: a running cpu with status Ok has executed Ret on an empty stack
C29_Witness ==
    RetOnEmpty /\ ~pre.cpu.halted /\ pre.cpu.status = "Ok" /\ cpu.halted /\ cpu.status = "Ok"

\* C30: a step made on a halted cpu changes neither pc nor registers, RAM or
\* stack and prints nothing, and run makes no step on a halted cpu.
C30_HaltedIsTerminal ==
    /\ (JustStepped /\ last.haltedBefore) =>
          /\ cpu.pc = pre.cpu.pc
          /\ cpu.data = pre.cpu.data
          /\ ~(last.op = "Out" /\ ~last.panic)
    /\ (last.valid /\ last.cmd = "run") => ~last.haltedBefore

\* the last step was an Out whose operand has a value
OutStepped == JustStepped /\ last.op = "Out" /\ ValOk(last.args[1])

OutValue == val(pre.cpu.data, last.args[1])

\* C31: Out never stops the cpu, and the character it has written is its
\* operand value when that is a Unicode scalar, and the low byte of the value
\* otherwise (0xD800..0xDFFF).
C31_OutTotal ==
    OutStepped =>
        /\ ~panicked
        /\ output # <<>>
        /\ output[Len(output)] =
              (IF OutValue >= 55296 /\ OutValue <= 57343 THEN OutValue % 256
               ELSE OutValue)

\* the debugger has been built, or has failed to be, from original_binary
Loaded == mode = "shell" /\ ncmds = 0

\* C33: a binary of 2k bytes loads as ram[i] = byte[2i] + 256 * byte[2i+1] for
\* i < k and 0 from k on, with all registers 0 and an empty stack.
C33_LoadWords ==
    (Loaded /\ Len(original_binary) % 2 = 0) =>
        /\ ~panicked
        /\ \A i \in 0..(RAM_SIZE - 1) :
              (i \in DOMAIN cpu.data.ram \/ 2 * i + 2 <= Len(original_binary)) =>
                  RamAt(cpu.data.ram, i) =
                      (IF 2 * i + 2 <= Len(original_binary)
                       THEN original_binary[2 * i + 1] + 256 * original_binary[2 * i + 2]
                       ELSE 0)
        /\ \A r \in 0..7 : cpu.data.registers[r] = 0
        /\ cpu.data.stack = <<>>

\* C33 witness: a binary of two words whose bytes differ has been loaded
C33_Witness ==
    /\ Loaded /\ original_binary = <<1, 255, 0, 1>> /\ ~panicked
    /\ cpu.data.ram = (0 :> 65281 @@ 1 :> 256)

\* C35: a binary with an odd number of bytes is a load error, and no machine
\* is built from the words decoded before it.
C35_OddLengthFails ==
    (Loaded /\ Len(original_binary) % 2 = 1) =>
        (from_bin(original_binary).err /\ panicked)

\* C35 witness: the load of a binary of three bytes, one whole word and a
\* trailing byte, has failed
C35_Witness == Loaded /\ Len(original_binary) = 3 /\ original_binary[1] # 0 /\ panicked

\* the word operand k of the decoded instruction was built from
OperandWord(k) == dslice.words[1 + OperandIdx(DecodedWord % 256)[k]]

\* C34: a word w of [0, 32775] converted to an operand is Literal(w) below
\* 32768 and Register(w - 32768) from there on, and the operand converted
\* back is w.
C34_OperandRoundTrip ==
    Decoded =>
        \A k \in 1..Len(dop[1].instr.args) :
            OperandWord(k) <= 32775 =>
                /\ OperandWord(k) < 32768 =>
                      (dop[1].instr.args[k].kind = "Literal"
                          /\ dop[1].instr.args[k].v = OperandWord(k))
                /\ OperandWord(k) >= 32768 =>
                      (dop[1].instr.args[k].kind = "Register"
                          /\ dop[1].instr.args[k].v = OperandWord(k) - 32768)
                /\ SynInt_into(dop[1].instr.args[k]) = OperandWord(k)

\* C34 witness: Set r7 1 has been decoded from the words 1, 32775, 1
C34_Witness ==
    /\ Decoded /\ DecodedWord = 1 /\ OperandWord(1) = 32775 /\ OperandWord(2) = 1
    /\ dop[1].instr.args = <<Register(7), Literal(1)>>
    /\ SynInt_into(dop[1].instr.args[1]) = 32775

\* the RAM with the tag removed from the words at the addresses bps
ClearTags(ram, bps) ==
    LET w(a) == IF a \in bps THEN ram[a] % 256 ELSE ram[a]
    IN [a \in {x \in DOMAIN ram : w(x) # 0} |-> w(a)]

\* the last step, made on the cpu without the tags of the breakpoint set
Untagged36 ==
    step([pre.cpu EXCEPT !.data.ram = ClearTags(@, breakpoints)], pre.env)

\* C36: a step of the machine with breakpoints set produces the registers, the
\* stack and the output that the same step produces on the machine without
\* these breakpoints, also when the instruction reads a breakpoint address
\* with ReadMem (the step that resumes at each pause, for every program).
C36_BreakpointsInvisible ==
    (JustStepped /\ ~last.ret) =>
        /\ panicked = Untagged36.panic
        /\ ~panicked =>
              /\ cpu.data.registers = Untagged36.cpu.data.registers
              /\ cpu.data.stack = Untagged36.cpu.data.stack
              /\ step(pre.cpu, pre.env).out = Untagged36.out

\* C37: every register holds a value of [0, 32767].
C37_RegistersIn15Bits ==
    \A r \in 0..(NUM_REGS - 1) : cpu.data.registers[r] \in 0..32767

\* C38: a status other than Ok implies halted; and the status changes only in
\* a step of the cpu, to PopOnEmptyStack or InstructionParseError, and in a
\* restart, to Ok.
C38_StatusImpliesHalted ==
    /\ [](cpu.status # "Ok" => cpu.halted)
    /\ [][cpu'.status # cpu.status =>
            \/ nsteps' = nsteps + 1
                  /\ cpu'.status \in {"PopOnEmptyStack", "InstructionParseError"}
            \/ lastCmd' = "restart" /\ ncmds' = ncmds + 1 /\ cpu'.status = "Ok"]_vars

\* C38 witness: a restart has put the status of a cpu halted on
\* PopOnEmptyStack back to Ok
C38_Witness ==
    /\ JustRestarted /\ snap.cpu.status = "PopOnEmptyStack" /\ snap.cpu.halted
    /\ cpu.status = "Ok" /\ ~cpu.halted

\* the last step, made on the cpu with the upper byte of the word at pc cleared
Untagged39 == step(Untag(pre.cpu), pre.env)

\* C39: the step of a tagged instruction word has the effect on pc, registers,
\* stack, output and the other RAM words of the step of that word with its
\* upper byte cleared.
C39_StepIgnoresTag ==
    (JustStepped /\ last.bp /\ ~last.ret) =>
        /\ panicked = Untagged39.panic
        /\ ~panicked =>
              /\ cpu.pc = Untagged39.cpu.pc
              /\ cpu.data.registers = Untagged39.cpu.data.registers
              /\ cpu.data.stack = Untagged39.cpu.data.stack
              /\ step(pre.cpu, pre.env).out = Untagged39.out
              /\ \A a \in (DOMAIN cpu.data.ram \cup DOMAIN Untagged39.cpu.data.ram) \ {last.addr} :
                    RamAt(cpu.data.ram, a) = RamAt(Untagged39.cpu.data.ram, a)

\* the last step returned from its last statement
Completed == JustStepped /\ ~panicked /\ ~last.ret

TypedCommand == Command_from(typed.words[1])

TypedArgs == Tail(typed.words)

\* the line names no command, or gives breakpoint, set or jump an argument
\* that is missing, does not parse or is out of range
BadLine ==
    \/ TypedCommand = "Unknown"
    \/ /\ TypedCommand = "Breakpoint"
       /\ \/ TypedArgs = <<>>
          \/ TypedArgs[1] \notin {<<"l", "i", "s", "t">>, <<"s", "e", "t">>, <<"u", "n", "s", "e", "t">>}
          \/ TypedArgs[1] # <<"l", "i", "s", "t">> /\ Len(TypedArgs) = 1
          \/ \E k \in 2..Len(TypedArgs) : ~from_str_radix(hex_body(TypedArgs[k]), 16).ok
    \/ /\ TypedCommand = "SetRegister"
       /\ \/ Len(TypedArgs) < 2
          \/ ~parse_usize(TypedArgs[1]).ok
          \/ parse_usize(TypedArgs[1]).v > 7
          \/ ~parse_usize(TypedArgs[2]).ok
          \/ parse_usize(TypedArgs[2]).v > 65535
    \/ /\ TypedCommand = "Jump"
       /\ \/ TypedArgs = <<>>
          \/ ~from_str_radix(hex_body(TypedArgs[1]), 16).ok
          \/ from_str_radix(hex_body(TypedArgs[1]), 16).v > 65535

\* the argument of step does not parse
BadStepArgument ==
    TypedCommand = "Step" /\ TypedArgs # <<>> /\ ~parse_usize(TypedArgs[1]).ok

\* step is given no argument
NoStepArgument == TypedCommand = "Step" /\ TypedArgs = <<>>

\* the debugger is as the line typed last found it
AsTyped == ~panicked /\ cpu = typed.cpu /\ breakpoints = typed.bps

\* a line has been typed and no other command given since
JustTyped == lastCmd = "line" /\ typed.valid

=============================================================================
